---- MODULE Spec2Model ----
(***************************************************************************)
(* Model of tools/pxf_merge.py: the per-glyph three-way merge of .pxf      *)
(* files (merge_three) and the header counter rewrite (rebuild_num_glyphs).*)
(*                                                                         *)
(* A text is a sequence of lines.  A line is a record                      *)
(*     [t |-> kind, v |-> number, nl |-> terminator]                       *)
(*   t = "anchor"  the line  glyphs:                                       *)
(*   t = "num"     the line  num_glyphs: <v>                               *)
(*   t = "start"   the line  <TAB><v>:          (start of glyph v)         *)
(*   t = "field"   the line  <TAB><TAB>advance: <v>   (glyph content)      *)
(*   t = "other"   any other non-blank header line, e.g.  name: f          *)
(*   t = "blank"   an empty line                                           *)
(*   nl = "lf" | "crlf" | "none"  (how the line is terminated; "none" is   *)
(*   a last line that lacks its terminator)                                *)
(***************************************************************************)
EXTENDS Integers, Sequences, FiniteSets, TLC

\* ------------------------------------------------------------------ bounds
MaxKey == 2
MaxHeaderLen == 3
MaxCount == 2

Keys == 1..MaxKey

\* ------------------------------------------------------------------ lines
Ln(t, v, nl) == [t |-> t, v |-> v, nl |-> nl]
AnchorLine == Ln("anchor", 0, "lf")
NumLine(n) == Ln("num", n, "lf")
OtherLine == Ln("other", 0, "lf")
BlankLine == Ln("blank", 0, "lf")
StartLine(k) == Ln("start", k, "lf")
FieldLine(c) == Ln("field", c, "lf")

\* Optional[str]
None == [some |-> FALSE, txt |-> <<>>]
Some(x) == [some |-> TRUE, txt |-> x]

RECURSIVE SortedSeq(_)
SortedSeq(S) ==
  IF S = {} THEN <<>>
  ELSE LET m == CHOOSE x \in S : \A y \in S : x <= y
       IN <<m>> \o SortedSeq(S \ {m})

SeqSet(s) == {s[i] : i \in 1..Len(s)}

\* ------------------------------------------------------------- utilities
\* s.replace("\r\n", "\n").replace("\r", "\n")
normalize_eol(s) ==
  [i \in 1..Len(s) |-> IF s[i].nl = "crlf" THEN [s[i] EXCEPT !.nl = "lf"] ELSE s[i]]

\* GLYPHS_ANCHOR_RE = (?m)^\s*glyphs:\s*\n  : a glyphs: line that is terminated
IsAnchorMatch(l) == l.t = "anchor" /\ l.nl = "lf"

\* The trailing \s*\n of the anchor regex is greedy: it also swallows the
\* blank lines that directly follow the anchor line.
RECURSIVE AnchorEnd(_, _)
AnchorEnd(text, i) ==
  IF i < Len(text) /\ text[i + 1].t = "blank" /\ text[i + 1].nl = "lf"
  THEN AnchorEnd(text, i + 1)
  ELSE i

split_header_and_body(text) ==
  LET hits == {i \in 1..Len(text) : IsAnchorMatch(text[i])}
  IN IF hits = {} THEN [header |-> text, body |-> <<>>]
     ELSE LET m == CHOOSE i \in hits : \A j \in hits : i <= j
              idx == AnchorEnd(text, m)
          IN [header |-> SubSeq(text, 1, idx),
              body |-> SubSeq(text, idx + 1, Len(text))]

\* chunk.rstrip("\n") + "\n"
RECURSIVE RstripNl(_)
RstripNl(chunk) ==
  IF chunk = <<>> THEN <<>>
  ELSE IF chunk[Len(chunk)].t = "blank" THEN RstripNl(SubSeq(chunk, 1, Len(chunk) - 1))
  ELSE [chunk EXCEPT ![Len(chunk)].nl = "none"]

AddNl(chunk) ==
  IF chunk = <<>> THEN <<BlankLine>>
  ELSE [chunk EXCEPT ![Len(chunk)].nl = "lf"]

\* The loop of parse_glyph_blocks over starts[i], starts[i+1]; a later chunk
\* with the same key overwrites the entry.
RECURSIVE ParseLoop(_, _, _, _)
ParseLoop(body, starts, i, blocks) ==
  IF i >= Len(starts) THEN blocks
  ELSE LET chunk == SubSeq(body, starts[i], starts[i + 1] - 1)
           key == chunk[1].v
           blk == AddNl(RstripNl(chunk))
       IN ParseLoop(body, starts, i + 1,
                    [k \in (DOMAIN blocks) \cup {key} |->
                       IF k = key THEN blk ELSE blocks[k]])

parse_glyph_blocks(body) ==
  LET starts == SortedSeq({i \in 1..Len(body) : body[i].t = "start"})
                  \o <<Len(body) + 1>>
  IN ParseLoop(body, starts, 1, <<>>)

\* num_re = ^num_glyphs:\s*\d+\s*\n  matched against one line
NumMatch(l) == l.t = "num" /\ l.nl \in {"lf", "crlf"}
\* l.strip() == "glyphs:"
IsGlyphsLine(l) == l.t = "anchor"

RECURSIVE ReplaceFirst(_, _, _)
ReplaceFirst(lines, count, replaced) ==
  IF lines = <<>> THEN <<>>
  ELSE IF NumMatch(Head(lines)) /\ ~replaced
       THEN <<NumLine(count)>> \o ReplaceFirst(Tail(lines), count, TRUE)
       ELSE <<Head(lines)>> \o ReplaceFirst(Tail(lines), count, replaced)

RECURSIVE InsertBefore(_, _)
InsertBefore(lines, count) ==
  IF lines = <<>> THEN <<>>
  ELSE (IF IsGlyphsLine(Head(lines)) THEN <<NumLine(count)>> ELSE <<>>)
         \o <<Head(lines)>> \o InsertBefore(Tail(lines), count)

\* mutant: the replace branch is lost, the counter line is always inserted
rebuild_num_glyphs_alwaysInsert(header_text, count) == InsertBefore(header_text, count)

rebuild_num_glyphs(header_text, count) ==
  IF \E i \in 1..Len(header_text) : NumMatch(header_text[i])
  THEN ReplaceFirst(header_text, count, FALSE)
  ELSE InsertBefore(header_text, count)

\* (base_blk or "") != (side_blk or "")
OrEmpty(x) == IF x.some /\ x.txt # <<>> THEN x.txt ELSE <<>>
\* mutant: only presence is compared, a modified block counts as unchanged
changed_block_presence(base_blk, side_blk) == base_blk.some # side_blk.some
\* mutant: a block added to an absent base does not count as changed
changed_block_ignoreAdded(base_blk, side_blk) ==
  base_blk.some /\ OrEmpty(base_blk) # OrEmpty(side_blk)

changed_block(base_blk, side_blk) == OrEmpty(base_blk) # OrEmpty(side_blk)

\* ------------------------------------------------------------ merge core
\* dict.get(k): the block or None
Get(d, k) == IF k \in DOMAIN d THEN Some(d[k]) ELSE None

\* int(k) on a key of the choices file: a decimal string gives the number,
\* anything else raises (and the entry is skipped).
RawKeyOf(k) == ToString(k)
IntParses(raw) == \E k \in Keys : RawKeyOf(k) = raw
IntOf(raw) == CHOOSE k \in Keys : RawKeyOf(k) = raw

\* str(v).strip().lower()
StripLower(v) ==
  CASE v = " Ours " -> "ours"
    [] OTHER -> v

\* lines 176-182: normalise the keys of choices to int, skipping bad keys
NormalizeChoices(ch) ==
  [k \in {IntOf(raw) : raw \in {r \in DOMAIN ch : IntParses(r)}} |->
     StripLower(ch[RawKeyOf(k)])]

\* mutant: "keep" prefers BASE over the two sides
pick_from_choice_keepBase(bb, oo, tt, choice) ==
  CASE choice = "ours" -> oo
    [] choice = "theirs" -> tt
    [] choice = "base" -> bb
    [] choice = "keep" -> (IF bb.some THEN bb ELSE IF oo.some THEN oo ELSE tt)
    [] choice = "drop" -> None
    [] OTHER -> None
\* mutant: an unknown token falls back to THEIRS instead of dropping
pick_from_choice_unknownTheirs(bb, oo, tt, choice) ==
  CASE choice = "ours" -> oo
    [] choice = "theirs" -> tt
    [] choice = "base" -> bb
    [] choice = "keep" -> (IF oo.some THEN oo ELSE IF tt.some THEN tt ELSE bb)
    [] choice = "drop" -> None
    [] OTHER -> tt

pick_from_choice(bb, oo, tt, choice) ==
  CASE choice = "ours" -> oo
    [] choice = "theirs" -> tt
    [] choice = "base" -> bb
    [] choice = "keep" -> (IF oo.some THEN oo ELSE IF tt.some THEN tt ELSE bb)
    [] choice = "drop" -> None
    [] OTHER -> None

\* choices_int.get(k, "")
ChoiceFor(ci, k) == IF k \in DOMAIN ci THEN ci[k] ELSE ""

\* Outcome when neither side changed (line 222)
UnchangedPick(bb, oo, tt) == IF bb.some THEN bb ELSE IF oo.some THEN oo ELSE tt

\* Default policy for a conflict without a choice (line 232)
\* mutant: the default for a conflict is OURS
DefaultConflict_ours(bb, oo, tt) == oo

DefaultConflict(bb, oo, tt) == tt

\* mutant: the choice is consulted whenever any side changed
ReconcileKey_choiceAlways(k, bd, od, td, ci) ==
  LET bb == Get(bd, k)
      oo == Get(od, k)
      tt == Get(td, k)
      o_changed == changed_block(bb, oo)
      t_changed == changed_block(bb, tt)
      choice == ChoiceFor(ci, k)
  IN IF ~o_changed /\ ~t_changed
       THEN [val |-> UnchangedPick(bb, oo, tt), list |-> "none"]
     ELSE IF choice # ""
       THEN [val |-> pick_from_choice(bb, oo, tt, choice), list |-> "none"]
     ELSE IF o_changed /\ t_changed
       THEN [val |-> DefaultConflict(bb, oo, tt), list |-> "both"]
     ELSE IF o_changed /\ ~t_changed
       THEN [val |-> oo, list |-> "single"]
     ELSE [val |-> tt, list |-> "single"]

\* One iteration of the loop at lines 212-242: the merged value of key k and
\* the list (if any) the key is appended to.
ReconcileKey(k, bd, od, td, ci) ==
  LET bb == Get(bd, k)
      oo == Get(od, k)
      tt == Get(td, k)
      o_changed == changed_block(bb, oo)
      t_changed == changed_block(bb, tt)
      choice == ChoiceFor(ci, k)
  IN IF ~o_changed /\ ~t_changed
       THEN [val |-> UnchangedPick(bb, oo, tt), list |-> "none"]
     ELSE IF o_changed /\ t_changed
       THEN IF choice # ""
              THEN [val |-> pick_from_choice(bb, oo, tt, choice), list |-> "none"]
              ELSE [val |-> DefaultConflict(bb, oo, tt), list |-> "both"]
     ELSE IF o_changed /\ ~t_changed
       THEN [val |-> oo, list |-> "single"]
     ELSE [val |-> tt, list |-> "single"]

\* for k in sorted(all_keys): ... appended in ascending key order
ListOf(ks, bd, od, td, ci, which) ==
  SortedSeq({k \in ks : ReconcileKey(k, bd, od, td, ci).list = which})

MergedOf(ks, bd, od, td, ci) ==
  [k \in ks |-> ReconcileKey(k, bd, od, td, ci).val]

\* present_items = {k: v for k, v in merged.items() if v is not None}
PresentItems(m) == [k \in {j \in DOMAIN m : m[j].some} |-> m[k].txt]

\* lines 248-254
\* mutant: added is computed with the test of removed
AddedOf_asRemoved(ks, bd, present) ==
  SortedSeq({k \in ks : k \in DOMAIN bd /\ k \notin DOMAIN present})

AddedOf(ks, bd, present) ==
  SortedSeq({k \in ks : k \in DOMAIN present /\ k \notin DOMAIN bd})
\* mutant: removed lists every key of base, also those still in the outcome
RemovedOf_allOfBase(ks, bd, present) == SortedSeq({k \in ks : k \in DOMAIN bd})

RemovedOf(ks, bd, present) ==
  SortedSeq({k \in ks : k \in DOMAIN bd /\ k \notin DOMAIN present})

\* header = o_header or t_header or b_header
PickHeader(oh, th, bh) == IF oh # <<>> THEN oh ELSE IF th # <<>> THEN th ELSE bh

\* lines 260-266: header_final followed by the present blocks, ascending key
RECURSIVE JoinBlocks(_, _)
JoinBlocks(present, ks) ==
  IF ks = <<>> THEN <<>>
  ELSE (IF present[Head(ks)][Len(present[Head(ks)])].nl # "lf"
          THEN AddNl(present[Head(ks)]) ELSE present[Head(ks)])
         \o JoinBlocks(present, Tail(ks))

\* ------------------------------------------------------------------ state
VARIABLES
  base_text, ours_text, theirs_text, choices,   \* arguments of merge_three
  pc,                                           \* position in merge_three
  b, o, t, header, choices_int,                 \* lines 161-184
  merged, changed_single_side, changed_both_sides,   \* lines 186-242
  added, removed,                               \* lines 244-254
  header_final, merged_text,                    \* lines 256-266
  rb_header, rb_count, rb_out, rb_prev, rb_calls     \* rebuild_num_glyphs alone

vars == <<base_text, ours_text, theirs_text, choices, pc, b, o, t, header,
          choices_int, merged, changed_single_side, changed_both_sides,
          added, removed, header_final, merged_text,
          rb_header, rb_count, rb_out, rb_prev, rb_calls>>

mergeVars == <<base_text, ours_text, theirs_text, choices, pc, b, o, t, header,
               choices_int, merged, changed_single_side, changed_both_sides,
               added, removed, header_final, merged_text>>
rbVars == <<rb_header, rb_count, rb_out, rb_prev, rb_calls>>

\* ----------------------------------------------------------------- inputs
Max2(x, y) == IF x >= y THEN x ELSE y

\* The body of a document: for each key in ascending order either nothing
\* (f[k] = 0) or the glyph block  <TAB>k: / <TAB><TAB>advance: f[k]
RECURSIVE BodyOf(_, _)
BodyOf(f, k) ==
  IF k > MaxKey THEN <<>>
  ELSE (IF f[k] = 0 THEN <<>> ELSE <<StartLine(k), FieldLine(f[k])>>)
         \o BodyOf(f, k + 1)

\* Record contents are opaque to the merge (only equality is tested), so the
\* contents of a key are named in order of first use: base, ours, theirs.
\* This gives every equality pattern of (base, ours, theirs) once.
Canon(x, y, z) == x <= 1 /\ y <= x + 1 /\ z <= Max2(x, y) + 1

RawKeys == {RawKeyOf(k) : k \in Keys} \cup {"x"}
RawTokens == {"ours", "theirs", "base", "keep", "drop", "bogus", "", " Ours "}
EmptyMap == [r \in {} |-> ""]
\* choices files: empty, one entry, or the same token for every key
ChoiceMaps ==
  {EmptyMap} \cup {[r \in {raw} |-> tok] : raw \in RawKeys, tok \in RawTokens}
             \cup {[r \in RawKeys |-> tok] : tok \in RawTokens}

Crlf(text) == [i \in 1..Len(text) |-> [text[i] EXCEPT !.nl = "crlf"]]
NoEol(text) == IF text = <<>> THEN text ELSE [text EXCEPT ![Len(text)].nl = "none"]

\* Documents whose text varies around the same body
TextDocs ==
  UNION {
    { <<AnchorLine>> \o BodyOf(f, 1),
      <<NumLine(7), AnchorLine>> \o BodyOf(f, 1),
      <<OtherLine>> \o BodyOf(f, 1),
      Crlf(<<OtherLine, AnchorLine, BlankLine>> \o BodyOf(f, 1) \o <<BlankLine>>),
      NoEol(<<AnchorLine>> \o BodyOf(f, 1)),
      <<>> } : f \in [Keys -> 0..1] }

InitMergeState ==
  /\ pc = "start"
  /\ b = <<>> /\ o = <<>> /\ t = <<>>
  /\ header = <<>> /\ choices_int = <<>>
  /\ merged = <<>>
  /\ changed_single_side = <<>> /\ changed_both_sides = <<>>
  /\ added = <<>> /\ removed = <<>>
  /\ header_final = <<>> /\ merged_text = <<>>

RbIdle ==
  /\ rb_header = <<>> /\ rb_count = 0 /\ rb_out = <<>> /\ rb_prev = <<>>
  /\ rb_calls = 0

\* Well-formed documents, every pattern of records, any choices file
Init ==
  /\ \E fb \in [Keys -> 0..1], fo \in [Keys -> 0..2], ft \in [Keys -> 0..3] :
       /\ \A k \in Keys : Canon(fb[k], fo[k], ft[k])
       /\ base_text = <<AnchorLine>> \o BodyOf(fb, 1)
       /\ ours_text = <<AnchorLine>> \o BodyOf(fo, 1)
       /\ theirs_text = <<AnchorLine>> \o BodyOf(ft, 1)
  /\ choices \in ChoiceMaps
  /\ InitMergeState
  /\ RbIdle

\* Documents with varying header and line terminators, no choices file
InitText ==
  /\ base_text \in TextDocs
  /\ ours_text \in TextDocs
  /\ theirs_text \in TextDocs
  /\ choices = EmptyMap
  /\ InitMergeState
  /\ RbIdle

\* ---------------------------------------------------------------- actions
\* lines 161-184
Parse ==
  /\ pc = "start"
  /\ LET bs == split_header_and_body(normalize_eol(base_text))
         os == split_header_and_body(normalize_eol(ours_text))
         ts == split_header_and_body(normalize_eol(theirs_text))
     IN /\ b' = parse_glyph_blocks(bs.body)
        /\ o' = parse_glyph_blocks(os.body)
        /\ t' = parse_glyph_blocks(ts.body)
        /\ header' = PickHeader(os.header, ts.header, bs.header)
  /\ choices_int' = NormalizeChoices(choices)
  /\ pc' = "parsed"
  /\ UNCHANGED <<base_text, ours_text, theirs_text, choices, merged,
                 changed_single_side, changed_both_sides, added, removed,
                 header_final, merged_text>>
  /\ UNCHANGED rbVars

all_keys == (DOMAIN b) \cup (DOMAIN o) \cup (DOMAIN t)

\* lines 186-242
Reconcile ==
  /\ pc = "parsed"
  /\ merged' = MergedOf(all_keys, b, o, t, choices_int)
  /\ changed_single_side' = ListOf(all_keys, b, o, t, choices_int, "single")
  /\ changed_both_sides' = ListOf(all_keys, b, o, t, choices_int, "both")
  /\ pc' = "merged"
  /\ UNCHANGED <<base_text, ours_text, theirs_text, choices, b, o, t, header,
                 choices_int, added, removed, header_final, merged_text>>
  /\ UNCHANGED rbVars

present_items == PresentItems(merged)

\* lines 244-254
Classify ==
  /\ pc = "merged"
  /\ added' = AddedOf(all_keys, b, present_items)
  /\ removed' = RemovedOf(all_keys, b, present_items)
  /\ pc' = "classified"
  /\ UNCHANGED <<base_text, ours_text, theirs_text, choices, b, o, t, header,
                 choices_int, merged, changed_single_side, changed_both_sides,
                 header_final, merged_text>>
  /\ UNCHANGED rbVars

\* lines 256-282
Assemble ==
  /\ pc = "classified"
  /\ header_final' = rebuild_num_glyphs(header, Cardinality(DOMAIN present_items))
  /\ merged_text' = header_final'
                      \o JoinBlocks(present_items, SortedSeq(DOMAIN present_items))
  /\ pc' = "done"
  /\ UNCHANGED <<base_text, ours_text, theirs_text, choices, b, o, t, header,
                 choices_int, merged, changed_single_side, changed_both_sides,
                 added, removed>>
  /\ UNCHANGED rbVars

Next == Parse \/ Reconcile \/ Classify \/ Assemble

Spec == Init /\ [][Next]_vars
SpecText == InitText /\ [][Next]_vars

\* ------------------------------------------- rebuild_num_glyphs on its own
\* Header lines: the last line of a header may lack its terminator.
HeaderLines ==
  {AnchorLine, Ln("anchor", 0, "crlf"), OtherLine}
    \cup {NumLine(n) : n \in 0..MaxCount}
    \cup {Ln("num", n, "crlf") : n \in 0..MaxCount}
HeaderTexts ==
  LET full == UNION {[1..n -> HeaderLines] : n \in 0..MaxHeaderLen}
  IN full \cup {NoEol(h) : h \in full}

InitRebuild ==
  /\ rb_header \in HeaderTexts
  /\ rb_count \in 0..MaxCount
  /\ rb_out = <<>> /\ rb_prev = <<>> /\ rb_calls = 0
  /\ base_text = <<>> /\ ours_text = <<>> /\ theirs_text = <<>>
  /\ choices = EmptyMap
  /\ b = <<>> /\ o = <<>> /\ t = <<>>
  /\ header = <<>> /\ choices_int = <<>>
  /\ merged = <<>>
  /\ changed_single_side = <<>> /\ changed_both_sides = <<>>
  /\ added = <<>> /\ removed = <<>>
  /\ header_final = <<>> /\ merged_text = <<>>
  /\ pc = "idle"

\* rebuild_num_glyphs(header_text, count)
RebuildOnce ==
  /\ pc = "idle" /\ rb_calls = 0
  /\ rb_out' = rebuild_num_glyphs(rb_header, rb_count)
  /\ rb_calls' = 1
  /\ UNCHANGED <<rb_header, rb_count, rb_prev>>
  /\ UNCHANGED mergeVars

\* rebuild_num_glyphs applied to its own result with the same count
RebuildAgain ==
  /\ pc = "idle" /\ rb_calls = 1
  /\ rb_prev' = rb_out
  /\ rb_out' = rebuild_num_glyphs(rb_out, rb_count)
  /\ rb_calls' = 2
  /\ UNCHANGED <<rb_header, rb_count>>
  /\ UNCHANGED mergeVars

NextRebuild == RebuildOnce \/ RebuildAgain
SpecRebuild == InitRebuild /\ [][NextRebuild]_vars

\* ============================================================== properties
Done == pc = "done"
InList(k, lst) == k \in SeqSet(lst)

\* The record of key k in base, ours, theirs (None when absent)
BaseRec(k) == Get(b, k)
OursRec(k) == Get(o, k)
TheirsRec(k) == Get(t, k)
OursDiffers(k) == OursRec(k) # BaseRec(k)
TheirsDiffers(k) == TheirsRec(k) # BaseRec(k)
BothDiffer(k) == OursDiffers(k) /\ TheirsDiffers(k)
OneDiffers(k) == OursDiffers(k) # TheirsDiffers(k)

\* The entry of the choices file for key k
HasEntry(ch, k) == RawKeyOf(k) \in DOMAIN ch
EntryOf(ch, k) == ch[RawKeyOf(k)]
RecognizedTokens == {"ours", "theirs", "base", "keep", "drop"}

\* The records found in the merged text when it is read back
OutBlocks == parse_glyph_blocks(split_header_and_body(merged_text).body)
AbsentFromOutput(k) == ~merged[k].some /\ k \notin DOMAIN OutBlocks
OutcomeIs(k, rec) == merged[k] = rec /\ Get(OutBlocks, k) = rec

\* ---- C1
\* C1: the header of the merged document has a num_glyphs line whose integer
\* is the number of keys of the merge outcome that map to a present record.
C1_CounterLine ==
  Done =>
    \E i \in 1..Len(header_final) :
      /\ header_final[i].t = "num"
      /\ header_final[i].v = Cardinality({k \in DOMAIN merged : merged[k].some})

\* ---- C2
\* C2: a key changed on both sides with no entry in the choices file gets
\* theirs's record (deleted when theirs has none) and is listed in
\* changed_both_sides.
C2_DefaultTheirs ==
  Done =>
    \A k \in all_keys :
      (BothDiffer(k) /\ ~HasEntry(choices, k)) =>
        /\ OutcomeIs(k, TheirsRec(k))
        /\ (~TheirsRec(k).some => AbsentFromOutput(k))
        /\ InList(k, changed_both_sides)

C2_Witness ==
  /\ Done
  /\ \E k \in all_keys :
       /\ BothDiffer(k) /\ ~HasEntry(choices, k)
       /\ BaseRec(k).some /\ OursRec(k).some /\ TheirsRec(k).some
       /\ OursRec(k) # TheirsRec(k)
       /\ merged[k] = TheirsRec(k)
       /\ InList(k, changed_both_sides)

\* ---- C3
\* C3: for a key changed on both sides whose choices entry is a recognized
\* token: ours -> ours's record, theirs -> theirs's, base -> base's,
\* keep -> ours's if present, else theirs's, else base's, drop -> absent.
C3_ChoiceTokens ==
  Done =>
    \A k \in all_keys :
      (BothDiffer(k) /\ HasEntry(choices, k)) =>
        LET tok == EntryOf(choices, k)
        IN /\ tok = "ours" => OutcomeIs(k, OursRec(k))
           /\ tok = "theirs" => OutcomeIs(k, TheirsRec(k))
           /\ tok = "base" => OutcomeIs(k, BaseRec(k))
           /\ tok = "keep" =>
                OutcomeIs(k, IF OursRec(k).some THEN OursRec(k)
                             ELSE IF TheirsRec(k).some THEN TheirsRec(k)
                             ELSE BaseRec(k))
           /\ tok = "drop" => AbsentFromOutput(k)

C3_Witness ==
  /\ Done
  /\ \E k \in all_keys :
       /\ BothDiffer(k) /\ HasEntry(choices, k) /\ EntryOf(choices, k) = "keep"
       /\ BaseRec(k).some /\ OursRec(k).some /\ TheirsRec(k).some
       /\ OursRec(k) # TheirsRec(k)
       /\ merged[k] = OursRec(k)

\* ---- C4
\* C4 as stated: for a key changed on both sides whose choices entry is any
\* value other than ours, theirs, base, keep, drop, the key is absent from
\* the merged output.
C4_AnyOtherTokenDrops ==
  Done =>
    \A k \in all_keys :
      (BothDiffer(k) /\ HasEntry(choices, k)
         /\ EntryOf(choices, k) \notin RecognizedTokens) =>
        AbsentFromOutput(k)

\* C4 amended: for a key changed on both sides whose choices entry, trimmed
\* and lower-cased, is non-empty and none of the five tokens, the merge
\* completes and the key is absent from the merged output; an entry that is
\* empty after trimming counts as no entry (theirs's record, key listed in
\* changed_both_sides); a recognized token in another case or with
\* surrounding whitespace is applied as that token.
C4_UnknownTokenDrops ==
  Done =>
    \A k \in all_keys :
      (BothDiffer(k) /\ HasEntry(choices, k)) =>
        LET tok == StripLower(EntryOf(choices, k))
        IN /\ (tok # "" /\ tok \notin RecognizedTokens) =>
                (AbsentFromOutput(k) /\ ~InList(k, changed_both_sides))
           /\ tok = "" =>
                (OutcomeIs(k, TheirsRec(k)) /\ InList(k, changed_both_sides))
           /\ (tok = "ours" /\ EntryOf(choices, k) # "ours") =>
                OutcomeIs(k, OursRec(k))

C4_Witness ==
  /\ Done
  /\ \E k \in all_keys :
       /\ BothDiffer(k) /\ HasEntry(choices, k) /\ EntryOf(choices, k) = "bogus"
       /\ OursRec(k).some /\ TheirsRec(k).some
       /\ AbsentFromOutput(k)

\* ---- C5
\* What merge_three returns for the parsed documents under choices file ch
ResultFor(ch) ==
  LET ci == NormalizeChoices(ch)
      rk == [k \in all_keys |-> ReconcileKey(k, b, o, t, ci)]
      pres == PresentItems([k \in all_keys |-> rk[k].val])
  IN [text |-> rebuild_num_glyphs(header, Cardinality(DOMAIN pres))
                 \o JoinBlocks(pres, SortedSeq(DOMAIN pres)),
      added |-> AddedOf(all_keys, b, pres),
      removed |-> RemovedOf(all_keys, b, pres),
      changed_single_side |-> SortedSeq({k \in all_keys : rk[k].list = "single"}),
      changed_both_sides |-> SortedSeq({k \in all_keys : rk[k].list = "both"})]

Returned ==
  [text |-> merged_text, added |-> added, removed |-> removed,
   changed_single_side |-> changed_single_side,
   changed_both_sides |-> changed_both_sides]

\* ch1 and ch2 have the same entry (or none) for every key changed on both sides
SameOnConflicts(ch1, ch2) ==
  \A k \in all_keys :
    BothDiffer(k) =>
      /\ HasEntry(ch1, k) <=> HasEntry(ch2, k)
      /\ HasEntry(ch1, k) => EntryOf(ch1, k) = EntryOf(ch2, k)

\* The choices files that differ from the given one only in entries for keys
\* not changed on both sides: those entries removed, or set to one token for
\* every such key (and for the unparseable key).
ConflictRaw == {RawKeyOf(k) : k \in {j \in all_keys : BothDiffer(j)}}
Alternatives ==
  LET kept == (DOMAIN choices) \cap ConflictRaw
  IN {[r \in kept |-> choices[r]]}
       \cup {[r \in kept \cup (RawKeys \ ConflictRaw) |->
                IF r \in kept THEN choices[r] ELSE tok] : tok \in RawTokens}

C6_ListsFollowClasses ==
  Done =>
    \A k \in all_keys :
      /\ InList(k, changed_both_sides) <=> BothDiffer(k)
      /\ InList(k, changed_single_side) <=> OneDiffers(k)
      /\ (~InList(k, changed_both_sides) /\ ~InList(k, changed_single_side))
           <=> (~OursDiffers(k) /\ ~TheirsDiffers(k))

\* The choices file resolves key k: it has an entry for k that is not empty
\* once trimmed
Resolved(k) == HasEntry(choices, k) /\ StripLower(EntryOf(choices, k)) # ""

\* C6 amended: every key is in exactly one class; it is in changed_both_sides
\* iff both sides differ from base and the choices file does not resolve it,
\* in changed_single_side iff exactly one side differs, and in neither list
\* iff neither side differs or both differ and the choices file resolves it.
C6_ListsFollowClassesUnlessResolved ==
  Done =>
    \A k \in all_keys :
      /\ InList(k, changed_both_sides) <=> (BothDiffer(k) /\ ~Resolved(k))
      /\ InList(k, changed_single_side) <=> OneDiffers(k)
      /\ (~InList(k, changed_both_sides) /\ ~InList(k, changed_single_side))
           <=> ((~OursDiffers(k) /\ ~TheirsDiffers(k))
                  \/ (BothDiffer(k) /\ Resolved(k)))

C6_Witness ==
  /\ Done
  /\ \E k \in all_keys :
       /\ BothDiffer(k) /\ Resolved(k)
       /\ ~InList(k, changed_both_sides) /\ ~InList(k, changed_single_side)
  /\ \E k \in all_keys : OneDiffers(k) /\ InList(k, changed_single_side)

\* ---- C7
Disjoint(l1, l2) == SeqSet(l1) \cap SeqSet(l2) = {}

\* C7 as stated: added, removed, changed_single_side and changed_both_sides
\* are pairwise disjoint.
C7_FourListsDisjoint ==
  Done =>
    /\ Disjoint(added, removed)
    /\ Disjoint(added, changed_single_side)
    /\ Disjoint(added, changed_both_sides)
    /\ Disjoint(removed, changed_single_side)
    /\ Disjoint(removed, changed_both_sides)
    /\ Disjoint(changed_single_side, changed_both_sides)

\* C7 amended: added and removed are disjoint, and changed_single_side and
\* changed_both_sides are disjoint; a key of added or removed may also be in
\* one of the two changed lists.
C7_ListsDisjointInPairs ==
  Done =>
    /\ Disjoint(added, removed)
    /\ Disjoint(changed_single_side, changed_both_sides)

C7_Witness ==
  /\ Done
  /\ \E k \in all_keys : InList(k, added) /\ InList(k, changed_single_side)
  /\ \E k \in all_keys : InList(k, removed) /\ InList(k, changed_both_sides)

\* ---- C8
\* C8: a key is in added iff it has a present record in the merge outcome and
\* none in base; it is in removed iff it has a record in base and no present
\* record in the merge outcome.
C8_AddedRemoved ==
  Done =>
    \A k \in Keys :
      LET inOutcome == k \in DOMAIN merged /\ merged[k].some
      IN /\ InList(k, added) <=> (inOutcome /\ ~BaseRec(k).some)
         /\ InList(k, removed) <=> (BaseRec(k).some /\ ~inOutcome)

C8_Witness ==
  /\ Done
  /\ \E k \in all_keys : InList(k, added) /\ merged[k].some /\ ~BaseRec(k).some
  /\ \E k \in all_keys : InList(k, removed) /\ ~merged[k].some /\ BaseRec(k).some

\* ---- C9
NumIdx(h) == {i \in 1..Len(h) : h[i].t = "num" /\ h[i].nl # "none"}
GlyphsIdx(h) == {i \in 1..Len(h) : h[i].t = "anchor"}
MinOf(S) == CHOOSE x \in S : \A y \in S : x <= y

\* C9: rebuild_num_glyphs applied to its own result with the same count
\* returns that result unchanged; on a header with a num_glyphs line the first
\* such line is replaced and every other line is kept; on a header with none
\* and one glyphs: line, one line is inserted right before the glyphs: line.
C9_RebuildIdempotent ==
  /\ rb_calls = 2 => rb_out = rb_prev
  /\ rb_calls = 1 =>
       /\ NumIdx(rb_header) # {} =>
            rb_out = [rb_header EXCEPT ![MinOf(NumIdx(rb_header))] = NumLine(rb_count)]
       /\ (NumIdx(rb_header) = {} /\ Cardinality(GlyphsIdx(rb_header)) = 1) =>
            LET j == MinOf(GlyphsIdx(rb_header))
            IN rb_out = SubSeq(rb_header, 1, j - 1) \o <<NumLine(rb_count)>>
                          \o SubSeq(rb_header, j, Len(rb_header))

C9_Witness ==
  /\ rb_calls = 2
  /\ Cardinality(NumIdx(rb_header)) = 2
  /\ GlyphsIdx(rb_header) # {}
  /\ rb_out # rb_header
  /\ rb_out = rb_prev

\* ---- C10
\* Key k is absent from base and has the same record in ours and theirs
SameAddition(k) ==
  ~BaseRec(k).some /\ OursRec(k).some /\ OursRec(k) = TheirsRec(k)

\* C10 as stated: a key absent from base with the same record in ours and
\* theirs is treated as unchanged: the outcome is the common record and the
\* key is in neither changed list and not in added.
C10_SameAdditionUnchanged ==
  Done =>
    \A k \in all_keys :
      SameAddition(k) =>
        /\ OutcomeIs(k, OursRec(k))
        /\ ~InList(k, changed_single_side)
        /\ ~InList(k, changed_both_sides)
        /\ ~InList(k, added)

\* C10 amended: such a key counts as changed on both sides.  When the choices
\* file does not resolve it the outcome is the common record and the key is
\* listed in changed_both_sides and in added, never in changed_single_side.
\* When the choices file resolves it, the key is in neither changed list and
\* the token decides: ours, theirs or keep give the common record (key in
\* added), any other token leaves the key out of the output and of added.
C10_SameAdditionIsConflict ==
  Done =>
    \A k \in all_keys :
      SameAddition(k) =>
        /\ ~InList(k, changed_single_side)
        /\ ~Resolved(k) =>
             /\ OutcomeIs(k, OursRec(k))
             /\ InList(k, changed_both_sides)
             /\ InList(k, added)
        /\ Resolved(k) =>
             /\ ~InList(k, changed_both_sides)
             /\ IF StripLower(EntryOf(choices, k)) \in {"ours", "theirs", "keep"}
                  THEN OutcomeIs(k, OursRec(k)) /\ InList(k, added)
                  ELSE AbsentFromOutput(k) /\ ~InList(k, added)

C10_Witness ==
  /\ Done
  /\ \E k \in all_keys :
       /\ SameAddition(k) /\ ~HasEntry(choices, k)
       /\ merged[k] = OursRec(k)
       /\ InList(k, changed_both_sides) /\ InList(k, added)

====
